---- MODULE Spec2Model ----
(***************************************************************************)
(* Model of the document analysis service: the upload handler              *)
(* analyze_document of api_server.py and the DocumentAnalyzer pipeline of  *)
(* document_analyzer.py.                                                   *)
(*                                                                         *)
(* A file name is a sequence of tokens: single characters for the part     *)
(* the client chooses, opaque dot-free tokens for what the program adds    *)
(* (a job id, "_table_", ...).  A path is a sequence of names.             *)
(***************************************************************************)
EXTENDS Integers, Sequences, FiniteSets, TLC

(* ------------------------------------------------------------------ *)
(* Bounds of the model                                                *)
(* ------------------------------------------------------------------ *)

\* Number of analyze requests the server receives in one behaviour.
MaxJobs == 2

\* The size limit counted in chunks.  The code's limit is
\* MAX_FILE_SIZE_MB * 1024 * 1024 bytes, which is 128 * MAX_FILE_SIZE_MB
\* chunks of 8192 bytes (12800 chunks for the default of 100 MB); the model
\* keeps the chunk size and bounds the number of chunks the limit holds.
LimitChunks == 2

\* Largest number of tables of a document model.
MaxTables == 2

\* Largest number of pages of a PDF, and of embedded images on one page.
MaxPages == 2

MaxImages == 2

(* ------------------------------------------------------------------ *)
(* Program constants and configuration                                *)
(* ------------------------------------------------------------------ *)

\* file.read(8192)
ChunkSize == 8192

\* Config.MAX_FILE_SIZE_MB * 1024 * 1024, a whole number of chunks.
MaxFileSizeBytes == LimitChunks * ChunkSize

\* Config.TEMP_DIR and Config.OUTPUT_DIR (their defaults).
TEMP_DIR == << <<"/app/data/temp">> >>

OUTPUT_DIR == << <<"/app/data/output">> >>

\* Path("output") of the exporters: relative to the working directory.
ExporterOutputDir == << <<"output">> >>

\* pdf_path of the script entry point.
MainPdfPath == << <<".">>, <<"data">>,
                  <<"M", "a", "n", "-", "e", "c", "o", ".", "p", "d", "f">> >>

\* Parameters DocumentAnalyzer.__init__ takes besides self.
InitParams == {"pdf_path"}

\* Keyword arguments of the handler's call DocumentAnalyzer(str(temp_path),
\* output_dir=job_output_dir); the first argument is positional.
HandlerInitKeywords == {"output_dir"}

\* Keyword arguments of the script's call DocumentAnalyzer(pdf_path).
MainInitKeywords == {}

(* ------------------------------------------------------------------ *)
(* Strings and paths                                                  *)
(* ------------------------------------------------------------------ *)

\* str.lower() on the characters the model's file names use.
LowerChar(c) ==
    CASE c = "P" -> "p"
      [] c = "D" -> "d"
      [] c = "F" -> "f"
      [] c = "R" -> "r"
      [] OTHER -> c

Lower(s) == [i \in 1..Len(s) |-> LowerChar(s[i])]

\* str.endswith
EndsWith(s, suffix) ==
    /\ Len(s) >= Len(suffix)
    /\ SubSeq(s, Len(s) - Len(suffix) + 1, Len(s)) = suffix

\* The file type check without lower().
IsPdfFilenameCaseSensitive(filename) == EndsWith(filename, <<".", "p", "d", "f">>)

\* file.filename.lower().endswith('.pdf')
IsPdfFilename(filename) == EndsWith(Lower(filename), <<".", "p", "d", "f">>)

\* str.rfind('.'), 1-based, 0 when there is no dot.
RFindDot(name) ==
    LET dots == {i \in 1..Len(name) : name[i] = "."}
    IN  IF dots = {} THEN 0 ELSE CHOOSE i \in dots : \A k \in dots : k <= i

\* PurePath.stem of a name: the name without its last suffix; a leading or
\* a trailing dot starts no suffix.
StemOfName(name) ==
    LET i == RFindDot(name)
    IN  IF 1 < i /\ i < Len(name) THEN SubSeq(name, 1, i - 1) ELSE name

\* Path(p).stem
Stem(path) == StemOfName(path[Len(path)])

\* dir / name
Join(dir, name) == Append(dir, name)

\* Path.parent: the directory a path lies in.
Parent(path) == SubSeq(path, 1, Len(path) - 1)

\* f"{job_id}_{file.filename}"
TempName(job_id, filename) == <<job_id, "_">> \o filename

(* ------------------------------------------------------------------ *)
(* Documents                                                          *)
(* ------------------------------------------------------------------ *)

\* What doc.extract_image does for one embedded image: it returns the
\* bytes with this extension, or it raises ("bad").
ImageKinds == {"png", "bad"}

ImageLists == UNION {[1..n -> ImageKinds] : n \in 0..MaxImages}

PageLists == UNION {[1..n -> ImageLists] : n \in 0..MaxPages}

\* What the conversion engine and the PDF reader find in a file:
\* corrupt (converter.convert raises), the number of tables of the
\* document model, and the embedded images of each page.
Docs ==
    {[corrupt |-> TRUE, tables |-> 0, pages |-> <<>>]}
    \cup [corrupt : {FALSE}, tables : 0..MaxTables, pages : PageLists]

(* ------------------------------------------------------------------ *)
(* DocumentAnalyzer                                                   *)
(* ------------------------------------------------------------------ *)

\* CallBinds for a constructor that takes any keyword (**kwargs).
CallBindsAnyKeyword(params, npositional, keywords) ==
    npositional <= Cardinality(params)

\* Python's binding of a call's arguments to the parameters (none of
\* which has a default): the call raises TypeError unless every keyword
\* names a parameter that no positional argument has taken and every
\* parameter gets a value.
CallBinds(params, npositional, keywords) ==
    /\ npositional <= Cardinality(params)
    /\ keywords \subseteq params
    /\ npositional + Cardinality(keywords) = Cardinality(params)

\* The files and directories an analyzer works on: files, the files that
\* exist; dirs, the directories; written, every path this run has written
\* or created; exc, the exception that ended the run ("none" while it is
\* running normally).
World(files, dirs) ==
    [files |-> files, dirs |-> dirs, written |-> {}, exc |-> "none"]

\* open(path, 'w') ... write, and DataFrame.to_csv(path)
WriteFile(w, path) ==
    [w EXCEPT !.files = @ \cup {path}, !.written = @ \cup {path}]

\* Path.mkdir(exist_ok=True)
Mkdir(w, dir) ==
    [w EXCEPT !.dirs = @ \cup {dir}, !.written = @ \cup {dir}]

Raise(w, what) == [w EXCEPT !.exc = what]

\* f"{Path(self.pdf_path).stem}_table_{i+1}.csv"
TableName(stem, ordinal) == stem \o <<"_table_", ToString(ordinal), ".", "csv">>

\* f"{Path(self.pdf_path).stem}.md"
MarkdownName(stem) == stem \o <<".", "md">>

\* f"{Path(self.pdf_path).stem}_summary.json"
SummaryName(stem) == stem \o <<"_summary", ".", "json">>

\* f"{Path(self.pdf_path).stem}_images"
ImagesDirName(stem) == stem \o <<"_images">>

\* f"page{page_num+1}_img{img_index+1}.{image_ext}"
ImageName(page, index, ext) ==
    <<"page", ToString(page), "_img", ToString(index), ".", ext>>

\* self.converter.convert(self.pdf_path)
Convert(w, doc) ==
    IF doc.corrupt THEN Raise(w, "ConversionError") ELSE w

\* The loop of _save_tables over enumerate(self.doc.tables), from the
\* table of 0-based index i on.
RECURSIVE TableLoop(_, _, _, _, _)
TableLoop(w, output_dir, stem, ntables, i) ==
    IF i >= ntables THEN w
    ELSE TableLoop(WriteFile(w, Join(output_dir, TableName(stem, i + 1))),
                   output_dir, stem, ntables, i + 1)

\* DocumentAnalyzer._save_tables
SaveTables(w, pdf_path, doc) ==
    LET output_dir == ExporterOutputDir
    IN  TableLoop(Mkdir(w, output_dir), output_dir, Stem(pdf_path), doc.tables, 0)

\* The loops of _save_images over the pages and over each page's images,
\* from image index (1-based) of page p (1-based) on.  extract_image
\* raising ends the method: nothing catches it there.
RECURSIVE ImageLoop(_, _, _, _, _)
ImageLoop(w, images_dir, pages, p, index) ==
    IF p > Len(pages) THEN w
    ELSE IF index > Len(pages[p]) THEN ImageLoop(w, images_dir, pages, p + 1, 1)
    ELSE IF pages[p][index] = "bad" THEN Raise(w, "extract_image")
    ELSE ImageLoop(WriteFile(w, Join(images_dir, ImageName(p, index, pages[p][index]))),
                   images_dir, pages, p, index + 1)

\* DocumentAnalyzer._save_images
SaveImages(w, pdf_path, doc) ==
    LET output_dir == ExporterOutputDir
        images_dir == Join(output_dir, ImagesDirName(Stem(pdf_path)))
    IN  ImageLoop(Mkdir(Mkdir(w, output_dir), images_dir), images_dir, doc.pages, 1, 1)

\* DocumentAnalyzer._save_markdown
SaveMarkdown(w, pdf_path) ==
    LET output_dir == ExporterOutputDir
    IN  WriteFile(Mkdir(w, output_dir), Join(output_dir, MarkdownName(Stem(pdf_path))))

\* DocumentAnalyzer._create_summary_report
CreateSummaryReport(w, pdf_path) ==
    LET output_dir == ExporterOutputDir
    IN  WriteFile(Mkdir(w, output_dir), Join(output_dir, SummaryName(Stem(pdf_path))))

\* A statement of analyze() runs only if none before it raised.
Then(w, next) == IF w.exc = "none" THEN next ELSE w

\* DocumentAnalyzer.analyze: convert, then tables, images, markdown and
\* summary, in this order.
Analyze(w0, pdf_path, doc) ==
    LET w1 == Convert(w0, doc)
        w2 == Then(w1, SaveTables(w1, pdf_path, doc))
        w3 == Then(w2, SaveImages(w2, pdf_path, doc))
        w4 == Then(w3, SaveMarkdown(w3, pdf_path))
    IN  Then(w4, CreateSummaryReport(w4, pdf_path))

(* ------------------------------------------------------------------ *)
(* State                                                              *)
(* ------------------------------------------------------------------ *)

VARIABLES
    req,        \* req[p]: the handler invocation serving request p; raised
                \* is the exception the pipeline raised in it, if any
    issued,     \* the job ids uuid.uuid4() has returned
    tempFiles,  \* the files under Config.TEMP_DIR: path -> bytes written
    files,      \* every other file that exists (the artifacts)
    dirs,       \* the directories that exist
    wrote,      \* wrote[p]: every path request p has written or created
    main        \* the run of document_analyzer.py as a script

vars == <<req, issued, tempFiles, files, dirs, wrote, main>>

Procs == 1..MaxJobs

\* The values uuid.uuid4() returns, named in the order they are drawn in.
JobId(n) == "job" \o ToString(n)

JobIds == {JobId(n) : n \in 1..MaxJobs}

\* Declared file names of the uploads: r.pdf, a.b.PDF, n.txt, pdf,
\* r.pdf.txt.
Filenames ==
    { <<"r", ".", "p", "d", "f">>,
      <<"a", ".", "b", ".", "P", "D", "F">>,
      <<"n", ".", "t", "x", "t">>,
      <<"p", "d", "f">>,
      <<"r", ".", "p", "d", "f", ".", "t", "x", "t">> }

\* Length of the short chunk that ends an upload whose size is no whole
\* number of chunks.
ShortChunk == 1

\* What file.read(8192) can return, as a length: the upload's bytes come
\* in full chunks, then one shorter chunk if the size is no multiple of
\* the chunk size, then the empty chunk for ever.  So an upload's size is
\* any k * ChunkSize or k * ChunkSize + ShortChunk.
ReadLengths(at_end) == IF at_end THEN {0} ELSE {0, ShortChunk, ChunkSize}

NoPath == <<>>

NoResults == [present |-> FALSE]

\* No response yet.  A response has the HTTP status code, the status field
\* of the body ("" when the body is an error's detail), the error message
\* or detail, whether the body carries processing_time_seconds, and the
\* results.
NoResponse ==
    [code |-> 0, status |-> "", error |-> "", timed |-> FALSE, results |-> NoResults]

\* raise HTTPException(status_code, detail)
HttpError(code, detail) ==
    [code |-> code, status |-> "", error |-> detail, timed |-> FALSE,
     results |-> NoResults]

\* AnalysisResult(job_id, status="failed", processing_time_seconds, error=str(e))
FailedResult(message) ==
    [code |-> 200, status |-> "failed", error |-> message, timed |-> TRUE,
     results |-> NoResults]

\* AnalysisResult(job_id, status="completed", processing_time_seconds, results)
CompletedResult(results) ==
    [code |-> 200, status |-> "completed", error |-> "", timed |-> TRUE,
     results |-> results]

IdleRequest ==
    [pc |-> "idle", filename |-> <<>>, at_end |-> FALSE, job_id |-> "",
     file_size |-> 0, temp_path |-> NoPath, raised |-> "none",
     response |-> NoResponse]

IdleMain == [pc |-> "idle", doc |-> [corrupt |-> FALSE, tables |-> 0, pages |-> <<>>],
             exc |-> "none"]

\* After startup: Config.setup_directories() has made the two roots.
InitServer ==
    /\ req = [p \in Procs |-> IdleRequest]
    /\ issued = {}
    /\ tempFiles = <<>>
    /\ files = {}
    /\ dirs = {TEMP_DIR, OUTPUT_DIR}
    /\ wrote = [p \in Procs |-> {}]

Init ==
    /\ InitServer
    /\ main = IdleMain

(* ------------------------------------------------------------------ *)
(* analyze_document                                                   *)
(* ------------------------------------------------------------------ *)

\* uuid.uuid4(): a value no earlier call returned (random 122-bit values
\* are taken never to repeat).
Uuid4 == {JobId(Cardinality(issued) + 1)}

\* Config.OUTPUT_DIR / job_id
JobOutputDir(job_id) == Join(OUTPUT_DIR, <<job_id>>)

\* Config.TEMP_DIR / f"{job_id}_{file.filename}"
TempPath(job_id, filename) == Join(TEMP_DIR, TempName(job_id, filename))

\* The limit check with a limit one chunk too high.
OverLimitTooHigh(file_size) == file_size > MaxFileSizeBytes + ChunkSize

\* The limit check with >= for >.
OverLimitInclusive(file_size) == file_size >= MaxFileSizeBytes

\* if file_size > Config.MAX_FILE_SIZE_MB * 1024 * 1024
OverLimit(file_size) == file_size > MaxFileSizeBytes

\* Unlink with the removal lost.
UnlinkKeepsFile(present, path) == present

\* temp_path.unlink()
Unlink(present, path) == [q \in DOMAIN present \ {path} |-> present[q]]

\* The request arrives: the job id is drawn and the file type validated.
\* The requests are numbered in the order they arrive in.
\* A name that is no PDF name ends the request with 400, before the try
\* block and its finally.
Receive(p) ==
    /\ req[p].pc = "idle"
    /\ \A q \in Procs : q < p => req[q].pc # "idle"
    /\ \E filename \in Filenames, id \in Uuid4 :
        /\ issued' = issued \cup {id}
        /\ req' = [req EXCEPT ![p] =
              IF ~IsPdfFilename(filename)
              THEN [@ EXCEPT !.pc = "done", !.filename = filename,
                             !.job_id = id,
                             !.response = HttpError(400, "Only PDF files are supported")]
              ELSE [@ EXCEPT !.pc = "open", !.filename = filename,
                             !.job_id = id]]
    /\ UNCHANGED <<tempFiles, files, dirs, wrote, main>>

\* temp_path = ...; open(temp_path, 'wb'): the file exists and is empty.
OpenTemp(p) ==
    /\ req[p].pc = "open"
    /\ LET temp_path == TempPath(req[p].job_id, req[p].filename)
       IN  /\ req' = [req EXCEPT ![p].pc = "read", ![p].temp_path = temp_path]
           /\ tempFiles' = [q \in DOMAIN tempFiles \cup {temp_path} |->
                               IF q = temp_path THEN 0 ELSE tempFiles[q]]
           /\ wrote' = [wrote EXCEPT ![p] = @ \cup {temp_path}]
    /\ UNCHANGED <<issued, files, dirs, main>>

\* One turn of the loop: chunk := await file.read(8192).  An empty chunk
\* ends the loop and the with block.  Otherwise the chunk is counted, and
\* either the count is over the limit and 413 is raised, or the chunk is
\* written.
ReadChunk(p) ==
    /\ req[p].pc = "read"
    /\ \E chunk \in ReadLengths(req[p].at_end) :
       LET r == req[p]
           file_size == r.file_size + chunk
       IN  IF chunk = 0
           THEN /\ req' = [req EXCEPT ![p].pc = "saved", ![p].at_end = TRUE]
                /\ UNCHANGED tempFiles
           ELSE IF OverLimit(file_size)
           THEN /\ req' = [req EXCEPT ![p].pc = "finally",
                                      ![p].at_end = (chunk < ChunkSize),
                                      ![p].file_size = file_size,
                                      ![p].response =
                                          HttpError(413, "File size exceeds limit")]
                /\ UNCHANGED tempFiles
           ELSE /\ req' = [req EXCEPT ![p].at_end = (chunk < ChunkSize),
                                      ![p].file_size = file_size]
                /\ tempFiles' = [tempFiles EXCEPT ![r.temp_path] = @ + chunk]
    /\ UNCHANGED <<issued, files, dirs, wrote, main>>

\* job_output_dir.mkdir(parents=True, exist_ok=True)
MakeOutputDir(p) ==
    /\ req[p].pc = "saved"
    /\ req' = [req EXCEPT ![p].pc = "construct"]
    /\ dirs' = dirs \cup {JobOutputDir(req[p].job_id)}
    /\ wrote' = [wrote EXCEPT ![p] = @ \cup {JobOutputDir(req[p].job_id)}]
    /\ UNCHANGED <<issued, tempFiles, files, main>>

\* job_output_dir.glob(f"{output_stem}_table_*.csv"): the files of the
\* directory itself whose names start and end as the pattern says.
GlobTables(present, job_output_dir, output_stem) ==
    LET prefix == output_stem \o <<"_table_">>
        suffix == <<".", "csv">>
    IN  {f \in present :
            /\ Len(f) > 0
            /\ Parent(f) = job_output_dir
            /\ Len(f[Len(f)]) >= Len(prefix) + Len(suffix)
            /\ SubSeq(f[Len(f)], 1, Len(prefix)) = prefix
            /\ EndsWith(f[Len(f)], suffix)}

\* "Collect results": the paths the handler reports.  The table list is
\* kept as a set: glob's order is the directory's.
CollectResults(job_id, temp_path, job_output_dir, present) ==
    LET output_stem == Stem(temp_path)
    IN  [present |-> TRUE,
         job_id |-> job_id,
         markdown_path |-> Join(job_output_dir, MarkdownName(output_stem)),
         summary_path |-> Join(job_output_dir, SummaryName(output_stem)),
         tables |-> GlobTables(present, job_output_dir, output_stem),
         images_dir |-> Join(job_output_dir, ImagesDirName(output_stem))]

\* The handler's answer to what analyzer.analyze() did: an exception
\* becomes HTTPException(500), which "except HTTPException: raise" lets
\* through; otherwise the results are collected and the job is completed.
AfterAnalyze(w, job_id, temp_path) ==
    IF w.exc # "none"
    THEN HttpError(500, "Document analysis failed: " \o w.exc)
    ELSE CompletedResult(CollectResults(job_id, temp_path, JobOutputDir(job_id), w.files))

\* analyzer = DocumentAnalyzer(str(temp_path), output_dir=job_output_dir),
\* then analyzer.analyze() and the collection of the results.  The call
\* of the constructor is outside the inner try: its TypeError reaches
\* "except Exception" and becomes a failed result.
Construct(p) ==
    /\ req[p].pc = "construct"
    /\ LET r == req[p]
       IN  IF ~CallBinds(InitParams, 1, HandlerInitKeywords)
           THEN /\ req' = [req EXCEPT ![p].pc = "finally",
                              ![p].raised = "TypeError",
                              ![p].response = FailedResult(
                                  "__init__() got an unexpected keyword argument")]
                /\ UNCHANGED <<files, dirs, wrote>>
           ELSE \E doc \in Docs :
                LET w == Analyze(World(files, dirs), r.temp_path, doc)
                IN  /\ files' = w.files
                    /\ dirs' = w.dirs
                    /\ wrote' = [wrote EXCEPT ![p] = @ \cup w.written]
                    /\ req' = [req EXCEPT ![p].pc = "finally",
                                  ![p].raised = w.exc,
                                  ![p].response = AfterAnalyze(w, r.job_id, r.temp_path)]
    /\ UNCHANGED <<issued, tempFiles, main>>

\* finally: if temp_path and temp_path.exists(): temp_path.unlink().
\* Then the response leaves the handler.
Cleanup(p) ==
    /\ req[p].pc = "finally"
    /\ LET temp_path == req[p].temp_path
       IN  IF temp_path # NoPath /\ temp_path \in DOMAIN tempFiles
           THEN tempFiles' = Unlink(tempFiles, temp_path)
           ELSE UNCHANGED tempFiles
    /\ req' = [req EXCEPT ![p].pc = "done"]
    /\ UNCHANGED <<issued, files, dirs, wrote, main>>

Next ==
    \/ \E p \in Procs : Receive(p)
    \/ \E p \in Procs : OpenTemp(p)
    \/ \E p \in Procs : ReadChunk(p)
    \/ \E p \in Procs : MakeOutputDir(p)
    \/ \E p \in Procs : Construct(p)
    \/ \E p \in Procs : Cleanup(p)

Spec == Init /\ [][Next]_vars

(* ------------------------------------------------------------------ *)
(* document_analyzer.py run as a script                               *)
(* ------------------------------------------------------------------ *)

\* One method of the analyzer has run: its files and directories are on
\* disk, and an exception it raised ends the script.
MainStep(w, next) ==
    /\ files' = w.files
    /\ dirs' = w.dirs
    /\ main' = IF w.exc = "none"
               THEN [main EXCEPT !.pc = next]
               ELSE [main EXCEPT !.pc = "crashed", !.exc = w.exc]
    /\ UNCHANGED <<req, issued, tempFiles, wrote>>

\* analyzer = DocumentAnalyzer(pdf_path)
MainConstruct ==
    /\ main.pc = "idle"
    /\ main' = IF CallBinds(InitParams, 1, MainInitKeywords)
               THEN [main EXCEPT !.pc = "convert"]
               ELSE [main EXCEPT !.pc = "crashed", !.exc = "TypeError"]
    /\ UNCHANGED <<req, issued, tempFiles, files, dirs, wrote>>

\* analyze(): self.converter.convert(self.pdf_path) and _get_statistics().
\* The conversion shows what the file holds.
MainConvert ==
    /\ main.pc = "convert"
    /\ \E doc \in Docs :
        LET w == Convert(World(files, dirs), doc)
        IN  /\ files' = w.files
            /\ dirs' = w.dirs
            /\ main' = IF w.exc = "none"
                       THEN [main EXCEPT !.pc = "tables", !.doc = doc]
                       ELSE [main EXCEPT !.pc = "crashed", !.doc = doc, !.exc = w.exc]
    /\ UNCHANGED <<req, issued, tempFiles, wrote>>

MainSaveTables ==
    /\ main.pc = "tables"
    /\ MainStep(SaveTables(World(files, dirs), MainPdfPath, main.doc), "images")

MainSaveImages ==
    /\ main.pc = "images"
    /\ MainStep(SaveImages(World(files, dirs), MainPdfPath, main.doc), "markdown")

MainSaveMarkdown ==
    /\ main.pc = "markdown"
    /\ MainStep(SaveMarkdown(World(files, dirs), MainPdfPath), "summary")

MainCreateSummaryReport ==
    /\ main.pc = "summary"
    /\ MainStep(CreateSummaryReport(World(files, dirs), MainPdfPath), "done")

NextMain ==
    \/ MainConstruct
    \/ MainConvert
    \/ MainSaveTables
    \/ MainSaveImages
    \/ MainSaveMarkdown
    \/ MainCreateSummaryReport

SpecMain == Init /\ [][NextMain]_vars

(* ------------------------------------------------------------------ *)
(* Properties                                                         *)
(* ------------------------------------------------------------------ *)

\* path lies below dir (at any depth).
IsUnder(path, dir) ==
    /\ Len(path) > Len(dir)
    /\ SubSeq(path, 1, Len(dir)) = dir

\* The request has been through "finally" or never entered the try block:
\* its response has left the handler.
Finished(p) == req[p].pc = "done"

\* path is a file of the temp root whose name was made for job_id: the
\* name starts with the job id.
TempFileOfJob(path, job_id) ==
    /\ IsUnder(path, TEMP_DIR)
    /\ path[Len(path)][1] = job_id

\* C1: once an analyze request has finished, whatever its outcome, no file
\* whose name was generated for its job id is left under the temp root;
\* this holds in every interleaving of the requests.
C1_NoTempFileAfterRequest ==
    \A p \in Procs :
        Finished(p) =>
            \A f \in DOMAIN tempFiles : ~TempFileOfJob(f, req[p].job_id)

\* A request has finished after bytes of its upload were written to its
\* temp file, while another request's temp file is on disk.
C1_Witness ==
    \E p, q \in Procs :
        /\ p # q
        /\ Finished(p)
        /\ req[p].temp_path # NoPath
        /\ req[p].file_size > ChunkSize
        /\ req[q].temp_path \in DOMAIN tempFiles

DeclaredPdf(filename) ==
    LET n == Len(filename)
    IN  /\ n >= 4
        /\ filename[n - 3] = "."
        /\ filename[n - 2] \in {"p", "P"}
        /\ filename[n - 1] \in {"d", "D"}
        /\ filename[n] \in {"f", "F"}

\* The request's upload was a PDF by name, not empty and within the size
\* limit, and neither the conversion nor an exporter raised in it.
ValidSubmission(p) ==
    /\ DeclaredPdf(req[p].filename)
    /\ req[p].file_size > 0
    /\ req[p].file_size <= MaxFileSizeBytes
    /\ req[p].raised \notin {"ConversionError", "extract_image"}

\* C3: a submission named *.pdf, within the size limit, whose conversion
\* and exports all succeed ends with status "completed" and a result
\* descriptor with the job id and the artifact paths.
C3_ValidSubmissionCompletes ==
    \A p \in Procs :
        (Finished(p) /\ ValidSubmission(p)) =>
            /\ req[p].response.status = "completed"
            /\ req[p].response.results.present
            /\ req[p].response.results.job_id = req[p].job_id

\* C6: an upload whose byte count exceeds the limit is rejected with 413;
\* the job's output directory is not created, nothing but the temp file
\* was written, the pipeline was not run, and once the request has
\* finished no temp file of the job is left.
C6_OversizeRejected ==
    \A p \in Procs :
        req[p].file_size > MaxFileSizeBytes =>
            /\ req[p].pc \in {"finally", "done"}
            /\ req[p].response.code = 413
            /\ JobOutputDir(req[p].job_id) \notin dirs
            /\ wrote[p] = {req[p].temp_path}
            /\ req[p].raised = "none"
            /\ Finished(p) =>
                  \A f \in DOMAIN tempFiles : ~TempFileOfJob(f, req[p].job_id)

\* An upload one short chunk over the limit has been rejected after the
\* chunks before it were written, and the request has finished.
C6_Witness ==
    \E p \in Procs :
        /\ Finished(p)
        /\ req[p].file_size = MaxFileSizeBytes + ShortChunk
        /\ req[p].response.code = 413

\* C7: a declared file name that does not end in ".pdf" (in any letter
\* case) is rejected with 400 before the request has created or written
\* any file or directory; a name that ends in ".pdf" in any letter case is
\* not rejected by the file type check.
C7_FileTypeValidation ==
    \A p \in Procs :
        req[p].pc # "idle" =>
            IF DeclaredPdf(req[p].filename)
            THEN req[p].response.code # 400
            ELSE /\ Finished(p)
                 /\ req[p].response.code = 400
                 /\ req[p].temp_path = NoPath
                 /\ wrote[p] = {}

\* One request was rejected for its file name while another, whose name
\* ends in upper-case ".PDF", is being saved.
C7_Witness ==
    \E p, q \in Procs :
        /\ Finished(p)
        /\ req[p].response.code = 400
        /\ wrote[p] = {}
        /\ req[q].pc = "read"
        /\ req[q].filename = <<"a", ".", "b", ".", "P", "D", "F">>

\* The artifact files request p wrote: what it wrote besides its temp file
\* and the directories.
ArtifactsOf(p) == {f \in wrote[p] : f \in files}

\* C4: every artifact file the pipeline writes (markdown, summary, table
\* CSVs, images) lies under output_root/{job_id}/ for a job id.
C4_ArtifactsUnderJobDir ==
    \A f \in files : \E id \in JobIds : IsUnder(f, JobOutputDir(id))

\* C5: the reported markdown path is {stem}.md and the reported summary
\* path {stem}_summary.json in the job's own output directory, stem being
\* the uploaded file name without its extension, whatever the job id.
C5_ReportedNames ==
    \A p \in Procs :
        (Finished(p) /\ ValidSubmission(p)) =>
            LET stem == StemOfName(req[p].filename)
                job_output_dir == JobOutputDir(req[p].job_id)
                results == req[p].response.results
            IN  /\ results.present
                /\ results.markdown_path = Join(job_output_dir, stem \o <<".", "md">>)
                /\ results.summary_path =
                       Join(job_output_dir, stem \o <<"_summary", ".", "json">>)

\* Two requests share no job id, no temp path, no output directory and no
\* path either of them wrote.
JobsIsolated ==
    \A p, q \in Procs :
        (p # q /\ req[p].pc # "idle" /\ req[q].pc # "idle") =>
            /\ req[p].job_id # req[q].job_id
            /\ (req[p].temp_path # NoPath => req[p].temp_path # req[q].temp_path)
            /\ JobOutputDir(req[p].job_id) # JobOutputDir(req[q].job_id)
            /\ wrote[p] \cap wrote[q] = {}

\* A finished valid job has its markdown file and its summary file in its
\* own output directory.
JobsComplete ==
    \A p \in Procs :
        (Finished(p) /\ ValidSubmission(p)) =>
            /\ \E f \in files :
                  /\ Parent(f) = JobOutputDir(req[p].job_id)
                  /\ EndsWith(f[Len(f)], <<".", "md">>)
            /\ \E f \in files :
                  /\ Parent(f) = JobOutputDir(req[p].job_id)
                  /\ EndsWith(f[Len(f)], <<"_summary", ".", "json">>)

\* C8: any two jobs, also two submissions of the same file name at the
\* same time, have distinct job ids, temp paths and output directories and
\* write no path in common, and each job's artifacts are complete in its
\* own directory.
C8_JobsIsolatedAndComplete == JobsIsolated /\ JobsComplete

\* C9: the tables list of the result descriptor is exactly the set of CSV
\* files the job's table exporter produced (empty when the document has
\* no table).
C9_TablesListExact ==
    \A p \in Procs :
        (Finished(p) /\ ValidSubmission(p)) =>
            /\ req[p].response.results.present
            /\ req[p].response.results.tables =
                  {f \in ArtifactsOf(p) : EndsWith(f[Len(f)], <<".", "csv">>)}

\* The PDF has an embedded image whose extraction raises.
HasBadImage(doc) ==
    \E pg \in 1..Len(doc.pages) :
        \E i \in 1..Len(doc.pages[pg]) : doc.pages[pg][i] = "bad"

\* C10: when the extraction of one embedded image raises, the job does not
\* fail: markdown export and summary writing still run.
C10_ImageErrorNotFatal ==
    (main.pc \in {"done", "crashed"} /\ ~main.doc.corrupt /\ HasBadImage(main.doc)) =>
        /\ main.pc = "done"
        /\ Join(ExporterOutputDir, MarkdownName(Stem(MainPdfPath))) \in files
        /\ Join(ExporterOutputDir, SummaryName(Stem(MainPdfPath))) \in files

\* C11: the limit is checked on the running byte count before each chunk
\* (of at most 8192 bytes) is written.  So a temp file never holds more
\* than the limit; a request is rejected with 413 exactly when its running
\* count is strictly greater than the limit (a count equal to the limit is
\* accepted); and the temp file holds every counted chunk but the one that
\* crossed the limit, which is never written.
C11_LimitCheckedBeforeWrite ==
    /\ \A f \in DOMAIN tempFiles : tempFiles[f] <= MaxFileSizeBytes
    /\ \A p \in Procs :
          (req[p].response.code = 413) <=> (req[p].file_size > MaxFileSizeBytes)
    /\ \A p \in Procs :
          req[p].temp_path \in DOMAIN tempFiles =>
              LET on_disk == tempFiles[req[p].temp_path]
              IN  IF req[p].file_size > MaxFileSizeBytes
                  THEN /\ on_disk < req[p].file_size
                       /\ req[p].file_size - on_disk <= ChunkSize
                  ELSE on_disk = req[p].file_size

\* One upload of exactly the limit has been saved whole, while another was
\* rejected on the short chunk after the limit, its temp file (not yet
\* removed) holding the limit's bytes and not that chunk.
C11_Witness ==
    \E p, q \in Procs :
        /\ req[p].pc = "saved"
        /\ req[p].file_size = MaxFileSizeBytes
        /\ tempFiles[req[p].temp_path] = MaxFileSizeBytes
        /\ req[q].pc = "finally"
        /\ req[q].response.code = 413
        /\ req[q].file_size = MaxFileSizeBytes + ShortChunk
        /\ tempFiles[req[q].temp_path] = MaxFileSizeBytes

====
